---- MODULE Spec2Model ----
(***************************************************************************)
(* Model of pyspcwebgw: the SPC Web Gateway client (SpcWebGateway), its    *)
(* Area and Zone entities and the tolerant enum loader.                    *)
(*                                                                         *)
(* Coroutines are cut at their awaits: every action is the code that runs  *)
(* between two awaits of one coroutine, and the event loop interleaves the *)
(* actions of different coroutines.                                        *)
(***************************************************************************)
EXTENDS Integers, Sequences, FiniteSets, TLC

(* ---------------------------- bounds ---------------------------------- *)
\* async_load_parameters calls in one behaviour of SpecLoad
MaxLoads == 2
\* longest zone list the controller reports to a load of SpecLoad
MaxZones == 2
\* longest zone list the controller reports to the load of the other specifications
MaxSiteZones == 1
\* longest area list the controller reports
MaxAreas == 2
\* coroutines on the event loop at one time (push handlers and change_mode calls
\* awaiting a request, scheduled observer invocations): in Spec
MaxTasks == 2
\* in SpecPush
MaxHandlers == 1
\* in SpecCmd
MaxCommands == 1
\* changes of state the controller goes through in SpecSite
MaxChanges == 2

(* ------------------------- python values ------------------------------ *)
\* Python's None (also the default of _load_enum)
None == "None"
\* the falsy value _async_request returns for every failed exchange
False == [ok |-> FALSE]

(* ---------------------- const.py enumerations ------------------------- *)
\* raw value -> member, as Enum(value) looks a member up by value
AreaMode == (0 :> "UNSET") @@ (1 :> "PART_SET_A") @@ (2 :> "PART_SET_B") @@ (3 :> "FULL_SET")
ZoneInput == (0 :> "CLOSED") @@ (1 :> "OPEN")
ZoneType == (0 :> "ALARM") @@ (1 :> "ENTRY_EXIT")
ZoneStatus == (0 :> "OK") @@ (1 :> "INHIBIT")

AreaModeMembers == {AreaMode[v] : v \in DOMAIN AreaMode}

\* utils._load_enum: enum(value), or default when enum(value) raises ValueError
_load_enum(enum, value, default) ==
    IF value \in DOMAIN enum THEN enum[value] ELSE default

\* dict.get(key, default)
Get(d, key, default) == IF key \in DOMAIN d THEN d[key] ELSE default

(* ----------------------- event classification ------------------------- *)
Area_SUPPORTED_SIA_CODES == {"CG", "OG", "BV", "CL", "NL", "OP", "ZG"}
Zone_SUPPORTED_SIA_CODES == {"ZO", "ZC", "ZX", "ZD", "ZM", "BA", "BB", "BU", "BR", "BC"}

(* --------------------- what the controller can send ------------------- *)
AreaIds == {1, 2}
ZoneIds == {1, 2}
\* raw mode values of a response; 9 is a value AreaMode does not know
RawModes == {0, 1, 2, 3, 9}
\* the refreshable part of an area record, with or without the actor names
AreaFields ==
    { [mode |-> 0, last_set_user_name |-> "alice", last_unset_user_name |-> "bob"],
      [mode |-> 3, last_set_user_name |-> "alice", last_unset_user_name |-> "bob"],
      [mode |-> 9] }
\* the refreshable part of a zone record; 9 is unknown to all three enums
ZoneFields ==
    { [input |-> 0, type |-> 0, status |-> 0],
      [input |-> 1, type |-> 9, status |-> 1] }

\* names the controller gives its areas and zones
AreaNameOf(id) == <<"Area", id>>
ZoneNameOf(id) == <<"Zone", id>>

\* one record of the area list / of the zone list, as reported at load time
AreaRecs == { [id |-> i, name |-> AreaNameOf(i), mode |-> 0] : i \in AreaIds }
ZoneRecs ==
    { [id |-> i, zone_name |-> ZoneNameOf(i), area |-> a,
       input |-> 0, type |-> 0, status |-> 0] : i \in ZoneIds, a \in AreaIds }

SeqsUpTo(S, n) == UNION { [1..k -> S] : k \in 0..n }
AreaLists == SeqsUpTo(AreaRecs, MaxAreas)
ZoneLists == SeqsUpTo(ZoneRecs, MaxZones)
SiteZoneLists == SeqsUpTo(ZoneRecs, MaxSiteZones)

\* the JSON body of a successful exchange
Success(data) == [status |-> "success", data |-> data]
\* the HTTP exchanges that fail: a timeout, a client error, a status other than
\* 200, a body whose status is not success
Failures ==
    { [kind |-> "timeout"], [kind |-> "client_error"],
      [kind |-> "response", http |-> 500],
      [kind |-> "response", http |-> 200, json |-> [status |-> "error"]] }
\* what one HTTP exchange can come to, for the bodies the controller would send
Exchanges(bodies) ==
    Failures \cup { [kind |-> "response", http |-> 200, json |-> b] : b \in bodies }

\* SpcWebGateway._async_request: the decoded body, or False for a timeout, a
\* client error, a status other than 200 and a body whose status is not success
_async_request(x) ==
    IF x.kind # "response" THEN False
    ELSE IF x.http # 200 THEN False
    ELSE IF x.json.status # "success" THEN False
    ELSE x.json

\* Python truthiness of what _async_request returns
Truthy(data) == data # False

(* ------------------------------ state --------------------------------- *)
VARIABLES
    _info,            \* SpcWebGateway._info
    _areas,           \* SpcWebGateway._areas: area id -> Area (index of areaHeap)
    _zones,           \* SpcWebGateway._zones: zone id -> Zone (index of zoneHeap)
    _async_callback,  \* TRUE when an observer coroutine was given to the constructor
    areaHeap,         \* the Area objects, in order of construction
    zoneHeap,         \* the Zone objects, in order of construction
    loading,          \* the async_load_parameters coroutine
    ws,               \* _async_ws_handler coroutines awaiting their fetch, oldest first
    cm,               \* change_mode coroutines awaiting a request
    futures,          \* observer invocations scheduled with ensure_future, not yet run
    controller,       \* the SPC controller behind the gateway, where a behaviour follows it
    ev                \* what the last step did

vars == <<_info, _areas, _zones, _async_callback, areaHeap, zoneHeap,
          loading, ws, cm, futures, controller, ev>>

(* ------------------------------- Area --------------------------------- *)
\* a faulty _update that also empties the zone collection
Area_update_DropZones(self, api_data, sia_code) ==
    [self EXCEPT
        !._mode = _load_enum(AreaMode, api_data.mode, None),
        !._verified_alarm = (sia_code = "BV"),
        !._last_set_user_name = Get(api_data, "last_set_user_name", "N/A"),
        !._last_unset_user_name = Get(api_data, "last_unset_user_name", "N/A"),
        !.zones = <<>>]

\* a faulty _update that writes the mode and leaves an actor name as it was when
\* the record does not carry it
Area_update_KeepNames(self, api_data, sia_code) ==
    [self EXCEPT
        !._mode = _load_enum(AreaMode, api_data.mode, None),
        !._verified_alarm = (sia_code = "BV"),
        !._last_set_user_name = Get(api_data, "last_set_user_name", @),
        !._last_unset_user_name = Get(api_data, "last_unset_user_name", @)]

\* Area._update(api_data, sia_code)
Area_update(self, api_data, sia_code) ==
    [self EXCEPT
        !._mode = _load_enum(AreaMode, api_data.mode, None),
        !._verified_alarm = (sia_code = "BV"),
        !._last_set_user_name = Get(api_data, "last_set_user_name", "N/A"),
        !._last_unset_user_name = Get(api_data, "last_unset_user_name", "N/A")]

\* Area.__init__(gateway, spc_area)
Area_init(spc_area) ==
    Area_update([_id |-> spc_area.id, _name |-> spc_area.name,
                 _verified_alarm |-> FALSE, zones |-> <<>>,
                 _mode |-> None, _last_set_user_name |-> None,
                 _last_unset_user_name |-> None],
                spc_area, None)

\* a faulty last_changed_by that takes an unknown mode for UNSET
Area_last_changed_by_Falsy(self) ==
    IF self._mode \in {"UNSET", None} THEN self._last_set_user_name
    ELSE self._last_unset_user_name

\* Area.last_changed_by
Area_last_changed_by(self) ==
    IF self._mode = "UNSET" THEN self._last_set_user_name
    ELSE self._last_unset_user_name

\* a faulty update_state that forgets the mode when the fetch fails
Area_update_state_Forget(self, sia_code, data) ==
    IF Truthy(data) THEN Area_update(self, data.data.area[1], None)
    ELSE [self EXCEPT !._mode = None]

\* a faulty update_state that takes the mode from the event code where the code
\* tells one
Area_update_state_FromCode(self, sia_code, data) ==
    IF Truthy(data)
    THEN [Area_update(self, data.data.area[1], None) EXCEPT
            !._mode = IF sia_code = "OG" THEN "UNSET" ELSE @]
    ELSE self

\* Area.update_state(sia_code), from the point where the fetch has returned data
Area_update_state(self, sia_code, data) ==
    IF Truthy(data) THEN Area_update(self, data.data.area[1], None)
    ELSE self

\* the bodies the controller can send for GET spc/area/<id>
AreaBodies(id) ==
    { Success([area |-> << f @@ [id |-> id, name |-> AreaNameOf(id)] >>]) :
        f \in AreaFields }

(* ------------------------------- Zone --------------------------------- *)
\* a faulty _update that gives up on the whole record when one of its values is
\* unknown
Zone_update_AllOrNone(self, spc_zone, sia_code) ==
    IF /\ spc_zone.input \in DOMAIN ZoneInput
       /\ spc_zone.type \in DOMAIN ZoneType
       /\ spc_zone.status \in DOMAIN ZoneStatus
    THEN [self EXCEPT !._input = ZoneInput[spc_zone.input],
                      !._type = ZoneType[spc_zone.type],
                      !._status = ZoneStatus[spc_zone.status]]
    ELSE [self EXCEPT !._input = None, !._type = None, !._status = None]

\* Zone._update(spc_zone, sia_code)
Zone_update(self, spc_zone, sia_code) ==
    [self EXCEPT
        !._input = _load_enum(ZoneInput, spc_zone.input, None),
        !._type = _load_enum(ZoneType, spc_zone.type, None),
        !._status = _load_enum(ZoneStatus, spc_zone.status, None)]

\* Zone.__init__(gateway, area, spc_zone)
Zone_init(area, spc_zone) ==
    Zone_update([_id |-> spc_zone.id, _name |-> spc_zone.zone_name, _area |-> area,
                 _input |-> None, _type |-> None, _status |-> None],
                spc_zone, None)

\* Zone.update_state(sia_code), from the point where the fetch has returned data;
\* the zone of the body is a list of records or one record
Zone_update_state(self, sia_code, data) ==
    IF Truthy(data)
    THEN IF data.data.zone.isList
         THEN Zone_update(self, data.data.zone.items[1], sia_code)
         ELSE Zone_update(self, data.data.zone.item, sia_code)
    ELSE self

\* what reading a property comes to: a value, or an exception
Return(v) == [value |-> v]
Raise(e) == [raises |-> e]

\* SpcWebGateway.serial_number: self._info["data"]["panel"]["sn"], where _info is
\* the panel record itself or None
serial_number ==
    IF _info = None THEN Raise("TypeError")
    ELSE IF "data" \notin DOMAIN _info THEN Raise("KeyError")
    ELSE IF "panel" \notin DOMAIN _info.data THEN Raise("KeyError")
    ELSE IF "sn" \notin DOMAIN _info.data.panel THEN Raise("KeyError")
    ELSE Return(_info.data.panel.sn)

\* the attributes of a Zone object: what __init__ and _update assign, and what
\* the class defines
Zone_attributes ==
    {"_gateway", "_id", "_name", "_area", "_input", "_type", "_status",
     "SUPPORTED_SIA_CODES", "id", "unique_id", "name", "input", "type", "status",
     "area", "_update", "update_state"}

\* Zone.unique_id: "{}-{}".format(self.gateway.serial_number, self.id)
Zone_unique_id(self) ==
    IF "gateway" \notin Zone_attributes THEN Raise("AttributeError")
    ELSE LET sn == serial_number
         IN  IF "raises" \in DOMAIN sn THEN sn
             ELSE Return(<<sn.value, "-", self._id>>)

\* the bodies the controller can send for GET spc/zone/<id>
ZoneBodies(id) ==
    LET rec(f) == f @@ [id |-> id, zone_name |-> ZoneNameOf(id)]
    IN  { Success([zone |-> [isList |-> TRUE, items |-> << rec(f) >>]]) : f \in ZoneFields }
        \cup { Success([zone |-> [isList |-> FALSE, item |-> rec(f)]]) : f \in ZoneFields }

(* ----------------------------- Gateway -------------------------------- *)
\* an entity is a reference to an object of one of the two heaps
AreaRef(oid) == [cls |-> "Area", oid |-> oid]
ZoneRef(oid) == [cls |-> "Zone", oid |-> oid]
Deref(e) == IF e.cls = "Area" THEN areaHeap[e.oid] ELSE zoneHeap[e.oid]

\* dict[key] = value
Put(d, key, value) == (key :> value) @@ d
\* the empty dict
EmptyDict == [k \in {} |-> 0]
\* list(dict.values())
RECURSIVE Values(_)
Values(d) ==
    IF DOMAIN d = {} THEN <<>>
    ELSE LET k == CHOOSE x \in DOMAIN d : \A y \in DOMAIN d : x <= y
         IN  <<d[k]>> \o Values([x \in DOMAIN d \ {k} |-> d[x]])

RemoveAt(q, i) == [k \in 1..(Len(q) - 1) |-> IF k < i THEN q[k] ELSE q[k + 1]]

\* the coroutines on the event loop
Tasks == Len(ws) + Len(cm) + Len(futures)
\* async_load_parameters calls so far
Loads == loading.calls

\* SpcWebGateway.__init__
Init ==
    /\ _info = None
    /\ _areas = EmptyDict
    /\ _zones = EmptyDict
    /\ _async_callback \in BOOLEAN
    /\ areaHeap = <<>>
    /\ zoneHeap = <<>>
    /\ loading = [pc |-> "idle", calls |-> 0]
    /\ ws = <<>>
    /\ cm = <<>>
    /\ futures = <<>>
    /\ controller = [fields |-> [mode |-> 0], changes |-> 0]
    /\ ev = [op |-> "init"]

(* ----------------------- async_load_parameters ------------------------ *)
PanelBody == Success([panel |-> [sn |-> "SN1"]])
PanelExchanges == Exchanges({PanelBody})
ZoneListExchanges == Exchanges({ Success([zone |-> zl]) : zl \in ZoneLists })
SiteZoneListExchanges == Exchanges({ Success([zone |-> zl]) : zl \in SiteZoneLists })
AreaListExchanges == Exchanges({ Success([area |-> al]) : al \in AreaLists })

\* _async_get_panel_info, from the returned data: the panel record, or None
_async_get_panel_info(data) == IF Truthy(data) THEN data.data.panel ELSE None
\* _async_get_zones and _async_get_areas, from the returned data: the list, or
\* None (here: no list)
_async_get_zones(data) ==
    IF Truthy(data) THEN [some |-> TRUE, list |-> data.data.zone] ELSE [some |-> FALSE]
_async_get_areas(data) ==
    IF Truthy(data) THEN [some |-> TRUE, list |-> data.data.area] ELSE [some |-> FALSE]
\* Python's "not x" for a list or None
Not(x) == ~x.some \/ x.list = <<>>

\* what a list fetch yielded: "nothing" (None or an empty list), "one" record or
\* "several"
Yield(x) ==
    IF ~x.some \/ Len(x.list) = 0 THEN "nothing"
    ELSE IF Len(x.list) = 1 THEN "one" ELSE "several"

\* the loop body of async_load_parameters for one spc_area: the registry and the
\* heaps after it
LoadArea(st, spc_area, zones) ==
    LET aoid == Len(st.areaHeap) + 1
        mine == SelectSeq(zones, LAMBDA zone : zone.area = spc_area.id)
        base == Len(st.zoneHeap)
        area_zones == [k \in 1..Len(mine) |-> Zone_init(aoid, mine[k])]
        area == [Area_init(spc_area) EXCEPT !.zones = [k \in 1..Len(mine) |-> base + k]]
        ids == { mine[k].id : k \in 1..Len(mine) }
        \* {z.id: z for z in area_zones}: the last zone of an id wins
        last(i) == CHOOSE k \in 1..Len(mine) :
                      /\ mine[k].id = i
                      /\ \A j \in 1..Len(mine) : mine[j].id = i => j <= k
    IN  [areaHeap |-> Append(st.areaHeap, area),
         zoneHeap |-> st.zoneHeap \o area_zones,
         areas |-> Put(st.areas, area._id, aoid),
         zones |-> [i \in ids |-> base + last(i)] @@ st.zones]

\* for spc_area in areas: ...
RECURSIVE LoadAreas(_, _, _)
LoadAreas(st, areas, zones) ==
    IF areas = <<>> THEN st
    ELSE LoadAreas(LoadArea(st, Head(areas), zones), Tail(areas), zones)

\* faulty checks that accept several areas
LoadAccepts_AnyCount(zones, areas) ==
    IF Not(zones) \/ Not(areas) THEN FALSE ELSE TRUE

\* the checks of async_load_parameters on the two lists: TRUE when it goes on to
\* construct the entities
LoadAccepts(zones, areas) ==
    IF Not(zones) \/ Not(areas) THEN FALSE
    ELSE IF Len(areas.list) > 1 THEN FALSE
    ELSE TRUE

\* async_load_parameters is called and sends the panel request
LoadCall ==
    /\ loading.pc = "idle"
    /\ loading' = [pc |-> "panel", calls |-> loading.calls + 1]
    /\ ev' = [op |-> "load_call"]
    /\ UNCHANGED <<_info, _areas, _zones, _async_callback, areaHeap, zoneHeap,
                   ws, cm, futures, controller>>

\* self._info = await self._async_get_panel_info()
LoadPanel(x) ==
    /\ loading.pc = "panel"
    /\ _info' = _async_get_panel_info(_async_request(x))
    /\ loading' = [loading EXCEPT !.pc = "lists"]
    /\ ev' = [op |-> "load_panel", ok |-> Truthy(_async_request(x))]
    /\ UNCHANGED <<_areas, _zones, _async_callback, areaHeap, zoneHeap,
                   ws, cm, futures, controller>>

\* the two list fetches and everything after them
LoadFinish(zx, ax) ==
    /\ loading.pc = "lists"
    /\ LET zones == _async_get_zones(_async_request(zx))
           areas == _async_get_areas(_async_request(ax))
           st == [areaHeap |-> areaHeap, zoneHeap |-> zoneHeap,
                  areas |-> _areas, zones |-> _zones]
       IN  IF LoadAccepts(zones, areas)
           THEN LET new == LoadAreas(st, areas.list, zones.list)
                IN  /\ areaHeap' = new.areaHeap
                    /\ zoneHeap' = new.zoneHeap
                    /\ _areas' = new.areas
                    /\ _zones' = new.zones
                    /\ ev' = [op |-> "load", ret |-> TRUE,
                               zones |-> Yield(zones) # "nothing",
                               areas |-> Yield(areas)]
           ELSE /\ UNCHANGED <<areaHeap, zoneHeap, _areas, _zones>>
                /\ ev' = [op |-> "load", ret |-> FALSE,
                           zones |-> Yield(zones) # "nothing",
                           areas |-> Yield(areas)]
    /\ loading' = [loading EXCEPT !.pc = "idle"]
    /\ UNCHANGED <<_info, _async_callback, ws, cm, futures, controller>>

(* -------------------------- _async_ws_handler ------------------------- *)
\* the codes and addresses of the push events of a behaviour
EventCodes == {"BV", "OG", "ZO", "ZZ"}
Addresses == AreaIds \cup ZoneIds

\* a faulty resolution that takes some loaded Zone for a zone-class event whose
\* address is no zone id
Resolve_AnyZone(sia_code, spc_id) ==
    IF sia_code \in Area_SUPPORTED_SIA_CODES
    THEN IF Cardinality(DOMAIN _areas) = 1
         THEN [to |-> "refresh", entity |-> AreaRef(Values(_areas)[1])]
         ELSE [to |-> "raise"]
    ELSE IF sia_code \in Zone_SUPPORTED_SIA_CODES
    THEN IF spc_id \in DOMAIN _zones
         THEN [to |-> "refresh", entity |-> ZoneRef(_zones[spc_id])]
         ELSE IF DOMAIN _zones # {}
         THEN [to |-> "refresh", entity |-> ZoneRef(Values(_zones)[1])]
         ELSE [to |-> "unregistered"]
    ELSE [to |-> "ignored"]

\* a faulty resolution that takes every code that is not zone-class for
\* area-class
Resolve_ElseArea(sia_code, spc_id) ==
    IF sia_code \in Zone_SUPPORTED_SIA_CODES
    THEN IF spc_id \in DOMAIN _zones
         THEN [to |-> "refresh", entity |-> ZoneRef(_zones[spc_id])]
         ELSE [to |-> "unregistered"]
    ELSE IF Cardinality(DOMAIN _areas) = 1
         THEN [to |-> "refresh", entity |-> AreaRef(Values(_areas)[1])]
         ELSE [to |-> "raise"]

\* lines 116-129: how the handler goes on for a code and an address
\*   [to |-> "raise"], [to |-> "ignored"], [to |-> "unregistered"] or
\*   [to |-> "refresh", entity |-> e]
Resolve(sia_code, spc_id) ==
    IF sia_code \in Area_SUPPORTED_SIA_CODES
    THEN IF Cardinality(DOMAIN _areas) = 1
         THEN [to |-> "refresh", entity |-> AreaRef(Values(_areas)[1])]
         ELSE [to |-> "raise"]
    ELSE IF sia_code \in Zone_SUPPORTED_SIA_CODES
    THEN IF spc_id \in DOMAIN _zones
         THEN [to |-> "refresh", entity |-> ZoneRef(_zones[spc_id])]
         ELSE [to |-> "unregistered"]
    ELSE [to |-> "ignored"]

\* the request of entity.update_state
RefreshRequest(e) ==
    IF e.cls = "Area" THEN [action |-> "get", url |-> <<"spc/area", Deref(e)._id>>]
    ELSE [action |-> "get", url |-> <<"spc/zone", Deref(e)._id>>]
\* what the exchange of that request can come to
RefreshExchanges(e) ==
    IF e.cls = "Area" THEN Exchanges(AreaBodies(Deref(e)._id))
    ELSE Exchanges(ZoneBodies(Deref(e)._id))

\* the handler is called with a message and runs to its first await, or to its
\* end: what it does to the Gateway
HandlerCall(sia_code, spc_id) ==
    LET r == Resolve(sia_code, spc_id)
    IN  /\ IF r.to = "refresh"
           THEN ws' = Append(ws, [entity |-> r.entity, sia_code |-> sia_code,
                                  spc_id |-> spc_id,
                                  url |-> RefreshRequest(r.entity).url,
                                  requests |-> << [action |-> "get"] >>])
           ELSE ws' = ws
        /\ ev' = [op |-> "ws_call", to |-> r.to, sia_code |-> sia_code, spc_id |-> spc_id]
        /\ UNCHANGED <<_info, _areas, _zones, _async_callback, areaHeap, zoneHeap,
                       loading, cm, futures>>

\* a websocket client that hands over the next message only when the handler
\* of the message before has returned
Dispatches_Awaited == ws = <<>>

\* the websocket client hands every message to a handler task of its own as the
\* message arrives, whatever the handlers before it are doing
Dispatches == TRUE

\* the handler is called with a message of a controller that goes on as it was
WsCall(sia_code, spc_id) ==
    Dispatches /\ HandlerCall(sia_code, spc_id) /\ UNCHANGED controller

\* the heaps after entity.update_state(sia_code) got data
Refreshed(e, sia_code, data) ==
    IF e.cls = "Area"
    THEN [areaHeap |-> [areaHeap EXCEPT
                           ![e.oid] = Area_update_state(areaHeap[e.oid], sia_code, data)],
          zoneHeap |-> zoneHeap]
    ELSE [areaHeap |-> areaHeap,
          zoneHeap |-> [zoneHeap EXCEPT
                           ![e.oid] = Zone_update_state(zoneHeap[e.oid], sia_code, data)]]

\* a faulty notification that is skipped when the refresh got no data
Notify_IfData(entity, data) ==
    IF _async_callback /\ Truthy(data) THEN <<entity>> ELSE <<>>

\* lines 133-134: the observer invocations the handler schedules for its entity
\* after a refresh that got data
Notify(entity, data) == IF _async_callback THEN <<entity>> ELSE <<>>

\* the fetch of handler i comes to exchange x: update_state goes on, then the
\* observer is scheduled and the handler ends: what it does to the Gateway
HandlerReturn(i, x) ==
    LET h == ws[i]
        data == _async_request(x)
        new == Refreshed(h.entity, h.sia_code, data)
    IN  /\ x \in RefreshExchanges(h.entity)
        /\ areaHeap' = new.areaHeap
        /\ zoneHeap' = new.zoneHeap
        /\ futures' = futures \o Notify(h.entity, data)
        /\ ws' = RemoveAt(ws, i)
        /\ ev' = [op |-> "ws_done", ok |-> Truthy(data), i |-> i]
        /\ UNCHANGED <<_info, _areas, _zones, _async_callback, loading, cm>>

\* the fetch of handler i comes to exchange x, the controller goes on as it was
WsFinish(i, x) == HandlerReturn(i, x) /\ UNCHANGED controller

\* the event loop runs the oldest scheduled observer invocation
ObserverRun ==
    /\ futures # <<>>
    /\ futures' = Tail(futures)
    /\ ev' = [op |-> "observer"]
    /\ UNCHANGED <<_info, _areas, _zones, _async_callback, areaHeap, zoneHeap,
                   loading, ws, cm, controller>>

(* ----------------------------- change_mode ---------------------------- *)
AREA_MODE_COMMAND_MAP ==
    ("UNSET" :> "unset") @@ ("PART_SET_A" :> "set_a") @@ ("PART_SET_B" :> "set_b")
        @@ ("FULL_SET" :> "set")

\* isinstance(new_mode, AreaMode)
IsAreaMode(new_mode) == new_mode \in AreaModeMembers

\* the values callers pass as new_mode: the members, None and a plain string
ModeArgs == AreaModeMembers \cup {None, "set"}
\* the values callers pass as area: an identifier or an Area object
AreaArgs ==
    { [isArea |-> FALSE, id |-> i] : i \in AreaIds }
    \cup { [isArea |-> TRUE, oid |-> o] : o \in 1..Len(areaHeap) }

\* a faulty lookup that falls back on the sole Area for an unknown identifier
ResolveArea_Fallback(area) ==
    IF area.isArea THEN area.oid
    ELSE IF area.id \in DOMAIN _areas THEN _areas[area.id]
    ELSE IF Cardinality(DOMAIN _areas) = 1
         THEN _areas[CHOOSE id \in DOMAIN _areas : TRUE]
    ELSE 0

\* lines 98-99: the Area object of the argument, 0 for None
ResolveArea(area) ==
    IF area.isArea THEN area.oid
    ELSE IF area.id \in DOMAIN _areas THEN _areas[area.id] ELSE 0

\* line 101: the url of a command
CommandUrl(oid, new_mode) ==
    <<"spc/area", areaHeap[oid]._id, AREA_MODE_COMMAND_MAP[new_mode]>>

\* what the exchange of a command can come to: the controller answers with the
\* area in the commanded mode
PutExchanges(c) ==
    LET raw == CHOOSE v \in DOMAIN AreaMode : AREA_MODE_COMMAND_MAP[AreaMode[v]] = c.url[3]
    IN  Exchanges({ Success([area |-> << [id |-> c.url[2], name |-> AreaNameOf(c.url[2]),
                                          mode |-> raw] >>]) })

\* a faulty order of the checks: the area is looked up and used before the mode
\* is validated
CommandCheck_AreaFirst(area, new_mode) ==
    IF ResolveArea(area) = 0 THEN "AttributeError"
    ELSE IF ~IsAreaMode(new_mode) THEN "TypeError"
    ELSE "put"

\* how change_mode goes on from its call: "TypeError", "AttributeError" or "put"
CommandCheck(area, new_mode) ==
    IF ~IsAreaMode(new_mode) THEN "TypeError"
    ELSE IF ResolveArea(area) = 0 THEN "AttributeError"
    ELSE "put"

\* change_mode is called and runs to its first await, or raises
CmCall(area, new_mode) ==
    LET to == CommandCheck(area, new_mode)
        oid == ResolveArea(area)
    IN  /\ IF to = "put"
           THEN cm' = Append(cm, [area |-> oid, pc |-> "put", data |-> False,
                                  url |-> CommandUrl(oid, new_mode),
                                  requests |-> << [action |-> "put"] >>])
           ELSE cm' = cm
        /\ ev' = [op |-> "cm_call", to |-> to]
        /\ UNCHANGED <<_info, _areas, _zones, _async_callback, areaHeap, zoneHeap,
                       loading, ws, futures, controller>>

\* a faulty change_mode that refreshes only after a command that succeeded
RefreshAfter_IfData(data) == Truthy(data)

\* line 104: whether change_mode refreshes the area after the command returned data
RefreshAfter(data) == TRUE

\* data = await self.async_put_request(url), then area.update_state() sends its fetch
CmPut(i, x) ==
    LET c == cm[i]
        data == _async_request(x)
    IN  /\ c.pc = "put"
        /\ x \in PutExchanges(c)
        /\ IF RefreshAfter(data)
           THEN cm' = [cm EXCEPT ![i] =
                         [c EXCEPT !.pc = "get", !.data = data,
                                   !.url = RefreshRequest(AreaRef(c.area)).url,
                                   !.requests = Append(@, [action |-> "get"])]]
           ELSE cm' = RemoveAt(cm, i)
        /\ ev' = [op |-> IF RefreshAfter(data) THEN "cm_put" ELSE "cm_done",
                  ok |-> Truthy(data)]
        /\ UNCHANGED <<_info, _areas, _zones, _async_callback, areaHeap, zoneHeap,
                       loading, ws, futures, controller>>

\* the fetch of area.update_state() comes to exchange x; change_mode returns the
\* command's data
CmFinish(i, x) ==
    LET c == cm[i]
        data == _async_request(x)
        new == Refreshed(AreaRef(c.area), None, data)
    IN  /\ c.pc = "get"
        /\ x \in RefreshExchanges(AreaRef(c.area))
        /\ areaHeap' = new.areaHeap
        /\ zoneHeap' = new.zoneHeap
        /\ cm' = RemoveAt(cm, i)
        /\ ev' = [op |-> "cm_done", ok |-> Truthy(data)]
        /\ UNCHANGED <<_info, _areas, _zones, _async_callback, loading, ws, futures,
                       controller>>

(* ------------------- entities used on their own ----------------------- *)
\* every area record and zone record a controller can report: each raw value
\* known or unknown (9), each actor name present or absent
AnyAreaFields ==
    { ([mode |-> m] @@ s) @@ u :
        m \in RawModes,
        s \in {EmptyDict, [last_set_user_name |-> "alice"]},
        u \in {EmptyDict, [last_unset_user_name |-> "bob"]} }
AnyZoneFields == [input : {0, 9}, type : {1, 9}, status : {0, 9}]

AnyAreaBodies(id) ==
    { Success([area |-> << f @@ [id |-> id, name |-> AreaNameOf(id)] >>]) :
        f \in AnyAreaFields }
AnyZoneBodies(id) ==
    LET rec(f) == f @@ [id |-> id, zone_name |-> ZoneNameOf(id)]
    IN  { Success([zone |-> [isList |-> TRUE, items |-> << rec(f) >>]]) : f \in AnyZoneFields }
        \cup { Success([zone |-> [isList |-> FALSE, item |-> rec(f)]]) : f \in AnyZoneFields }

\* Area(gateway, spc_area) and Zone(gateway, area, spc_zone) for any two records,
\* held by a Gateway as a load leaves them
InitEntity ==
    /\ \E a \in AnyAreaFields, z \in AnyZoneFields :
          /\ areaHeap = << [Area_init(a @@ [id |-> 1, name |-> AreaNameOf(1)])
                               EXCEPT !.zones = <<1>>] >>
          /\ zoneHeap = << Zone_init(1, z @@ [id |-> 1, zone_name |-> ZoneNameOf(1),
                                               area |-> 1]) >>
    /\ _areas = Put(EmptyDict, 1, 1)
    /\ _zones = Put(EmptyDict, 1, 1)
    /\ _info = PanelBody.data.panel
    /\ _async_callback = FALSE
    /\ loading = [pc |-> "idle", calls |-> 1]
    /\ ws = <<>>
    /\ cm = <<>>
    /\ futures = <<>>
    /\ controller = [fields |-> [mode |-> 0], changes |-> 0]
    /\ ev = [op |-> "init"]

\* await area.update_state(sia_code) by a caller that waits for it, the fetch
\* coming to exchange x
AreaUpdateState(o, sia_code, x) ==
    /\ areaHeap' = [areaHeap EXCEPT
                       ![o] = Area_update_state(@, sia_code, _async_request(x))]
    /\ ev' = [op |-> "area_update_state", o |-> o, x |-> x]
    /\ UNCHANGED <<_info, _areas, _zones, _async_callback, zoneHeap, loading,
                   ws, cm, futures, controller>>

\* await zone.update_state(sia_code) by a caller that waits for it
ZoneUpdateState(o, sia_code, x) ==
    /\ zoneHeap' = [zoneHeap EXCEPT
                       ![o] = Zone_update_state(@, sia_code, _async_request(x))]
    /\ ev' = [op |-> "zone_update_state", o |-> o, x |-> x]
    /\ UNCHANGED <<_info, _areas, _zones, _async_callback, areaHeap, loading,
                   ws, cm, futures, controller>>

(* ------------------- the controller behind the gateway ---------------- *)
\* the controller's area takes the state f and the controller emits one push
\* message for the change, whose handler starts
SiteChange(f, sia_code, spc_id) ==
    /\ Cardinality(DOMAIN _areas) = 1
    /\ f # controller.fields
    /\ controller' = [fields |-> f, changes |-> controller.changes + 1]
    /\ Dispatches
    /\ HandlerCall(sia_code, spc_id)

\* the controller serves the fetch of handler i: the response carries the state
\* the controller is in now and is on its way
SiteServe(i) ==
    LET h == ws[i]
        rec == controller.fields
                  @@ [id |-> Deref(h.entity)._id, name |-> AreaNameOf(Deref(h.entity)._id)]
    IN  /\ "reply" \notin DOMAIN h
        /\ ws' = [ws EXCEPT ![i] = h @@ [reply |-> Success([area |-> << rec >>])]]
        /\ ev' = [op |-> "site_serve"]
        /\ UNCHANGED <<_info, _areas, _zones, _async_callback, areaHeap, zoneHeap,
                       loading, cm, futures, controller>>

\* the response to handler i arrives: update_state goes on and the handler ends
SiteDeliver(i) ==
    /\ "reply" \in DOMAIN ws[i]
    /\ HandlerReturn(i, [kind |-> "response", http |-> 200, json |-> ws[i].reply])
    /\ UNCHANGED controller

(* --------------------------- specifications --------------------------- *)
\* async_load_parameters past its call, for the zone lists of SpecLoad
LoadSteps ==
    \/ \E x \in PanelExchanges : LoadPanel(x)
    \/ \E zx \in ZoneListExchanges, ax \in AreaListExchanges : LoadFinish(zx, ax)

\* async_load_parameters on a Gateway that calls it once
LoadOnceSteps ==
    \/ Loads = 0 /\ LoadCall
    \/ \E x \in PanelExchanges : LoadPanel(x)
    \/ \E zx \in SiteZoneListExchanges, ax \in AreaListExchanges : LoadFinish(zx, ax)

\* push handlers past their call, and the observer invocations they schedule
PushSteps ==
    \/ \E i \in 1..Len(ws) : \E x \in RefreshExchanges(ws[i].entity) : WsFinish(i, x)
    \/ ObserverRun

\* change_mode calls past their call
CommandSteps ==
    \/ \E i \in 1..Len(cm) :
          cm[i].pc = "put" /\ \E x \in PutExchanges(cm[i]) : CmPut(i, x)
    \/ \E i \in 1..Len(cm) :
          cm[i].pc = "get" /\ \E x \in RefreshExchanges(AreaRef(cm[i].area)) : CmFinish(i, x)

\* a Gateway that loads once, with its push handlers and its commands
Next ==
    \/ LoadOnceSteps
    \/ \E sia_code \in EventCodes, spc_id \in Addresses :
          WsCall(sia_code, spc_id) /\ Tasks' <= MaxTasks
    \/ PushSteps
    \/ \E area \in AreaArgs, new_mode \in ModeArgs :
          CmCall(area, new_mode) /\ Tasks' <= MaxTasks
    \/ CommandSteps
Spec == Init /\ [][Next]_vars

\* a Gateway that loads once, with its push handlers
NextPush ==
    \/ LoadOnceSteps
    \/ \E sia_code \in EventCodes, spc_id \in Addresses :
          WsCall(sia_code, spc_id) /\ Tasks' <= MaxHandlers
    \/ PushSteps
SpecPush == Init /\ [][NextPush]_vars

\* a Gateway constructed without an observer
InitNoObserver == Init /\ ~_async_callback

\* a Gateway without an observer that loads once, with its commands
NextCmd ==
    \/ LoadOnceSteps
    \/ \E area \in AreaArgs, new_mode \in ModeArgs :
          CmCall(area, new_mode) /\ Tasks' <= MaxCommands
    \/ CommandSteps
SpecCmd == InitNoObserver /\ [][NextCmd]_vars

\* a Gateway without an observer whose load sequence is called several times
NextLoad ==
    \/ Loads < MaxLoads /\ LoadCall
    \/ LoadSteps
SpecLoad == InitNoObserver /\ [][NextLoad]_vars

\* an Area and a Zone constructed from any record and refreshed from any response
NextEntity ==
    \/ \E o \in 1..Len(areaHeap), sia_code \in {None, "BV"} :
          \E x \in Exchanges(AnyAreaBodies(areaHeap[o]._id)) :
             AreaUpdateState(o, sia_code, x)
    \/ \E o \in 1..Len(zoneHeap), sia_code \in {None, "ZO"} :
          \E x \in Exchanges(AnyZoneBodies(zoneHeap[o]._id)) :
             ZoneUpdateState(o, sia_code, x)
SpecEntity == InitEntity /\ [][NextEntity]_vars

\* a Gateway that loads once, behind it a controller whose area changes state
\* and answers every fetch with the state it is in
NextSite ==
    \/ LoadOnceSteps
    \/ \E f \in AreaFields, spc_id \in Addresses :
          SiteChange(f, "OG", spc_id) /\ controller'.changes <= MaxChanges
    \/ \E i \in 1..Len(ws) : SiteServe(i)
    \/ \E i \in 1..Len(ws) : SiteDeliver(i)
    \/ ObserverRun
SpecSite == Init /\ [][NextSite]_vars

(* ------------------------------ claims -------------------------------- *)
\* the addresses that match no loaded entity
NoMatch(spc_id) == spc_id \notin DOMAIN _areas /\ spc_id \notin DOMAIN _zones
\* handler i of ws ends in this step
HandlerEnds(i) == ws' = RemoveAt(ws, i)
\* the sole Area of the registry
SoleArea == AreaRef(_areas[CHOOSE id \in DOMAIN _areas : TRUE])

\* C1: after an Area refresh that a push handler drove with code BV and whose
\* fetch succeeded, verified_alarm is true; after a successful refresh driven by
\* another code it is false.
C1_VerifiedAlarmFollowsCode ==
    [][ (ev'.op = "ws_done" /\ ev'.ok)
        => \A i \in 1..Len(ws) :
             (HandlerEnds(i) /\ ws[i].entity.cls = "Area")
             => areaHeap'[ws[i].entity.oid]._verified_alarm = (ws[i].sia_code = "BV") ]_vars

\* C2: a push event that resolves to a loaded entity starts exactly one refresh
\* of that entity and schedules nothing yet; when the fetch has come back, failed
\* or not, the handler schedules exactly one observer invocation, with that
\* entity (a Gateway constructed with an observer).
C2_OneRefreshThenOneNotification ==
    [][ /\ ev'.op = "ws_call"
           => LET sia_code == ev'.sia_code
                  spc_id == ev'.spc_id
                  area == sia_code \in Area_SUPPORTED_SIA_CODES
                             /\ Cardinality(DOMAIN _areas) = 1
                  zone == sia_code \in Zone_SUPPORTED_SIA_CODES
                             /\ spc_id \in DOMAIN _zones
                  entity == IF area THEN SoleArea ELSE ZoneRef(_zones[spc_id])
              IN  (area \/ zone)
                  => /\ Len(ws') = Len(ws) + 1
                     /\ ws'[Len(ws')].entity = entity
                     /\ ws'[Len(ws')].requests = << [action |-> "get"] >>
                     /\ ws'[Len(ws')].url =
                           <<IF area THEN "spc/area" ELSE "spc/zone", Deref(entity)._id>>
                     /\ futures' = futures
        /\ (ev'.op = "ws_done" /\ _async_callback)
           => \A i \in 1..Len(ws) :
                HandlerEnds(i)
                => /\ Len(ws[i].requests) = 1
                   /\ futures' = Append(futures, ws[i].entity) ]_vars

\* a handler ended after a failed fetch and its entity's observer invocation is
\* the last one scheduled
C2_Witness ==
    /\ ev.op = "ws_done" /\ ~ev.ok
    /\ futures # <<>>
    /\ futures[Len(futures)].cls = "Zone"

\* C3, as stated: a push payload whose sia_address matches no loaded entity
\* produces no observer invocation, whatever its code.
C3_NoMatchNoNotification ==
    [][ ev'.op = "ws_done"
        => \A i \in 1..Len(ws) :
             (HandlerEnds(i) /\ NoMatch(ws[i].spc_id)) => futures' = futures ]_vars

\* C3, amended: a push payload whose sia_address matches no loaded entity produces
\* no fetch and no observer invocation, unless its code is area-class and exactly
\* one Area is configured; only area-class handlers notify for such an address.
C3_NoMatchNoNotificationUnlessArea ==
    [][ /\ ( /\ ev'.op = "ws_call"
             /\ NoMatch(ev'.spc_id)
             /\ ~( /\ ev'.sia_code \in Area_SUPPORTED_SIA_CODES
                   /\ Cardinality(DOMAIN _areas) = 1 ) )
           => ws' = ws /\ futures' = futures
        /\ ev'.op = "ws_done"
           => \A i \in 1..Len(ws) :
                (HandlerEnds(i) /\ NoMatch(ws[i].spc_id) /\ futures' # futures)
                => /\ ws[i].sia_code \in Area_SUPPORTED_SIA_CODES
                   /\ ws[i].entity = SoleArea ]_vars

\* a zone-class event for an address that matches nothing was discarded by a
\* Gateway that has loaded its entities
C3_Witness ==
    /\ ev.op = "ws_call"
    /\ ev.to = "unregistered"
    /\ NoMatch(ev.spc_id)
    /\ DOMAIN _zones # {}
    /\ futures = <<>>

\* the attributes of entity e that a caller can read, in heaps ah and zh
Observable(e, ah, zh) ==
    IF e.cls = "Area"
    THEN LET a == ah[e.oid]
         IN  <<a._mode, a._last_set_user_name, a._last_unset_user_name,
               Area_last_changed_by(a), a._verified_alarm>>
    ELSE LET z == zh[e.oid]
         IN  <<z._input, z._type, z._status>>

\* C4: when the fetch of a refresh fails (timeout, client error, bad status, bad
\* body status), update_state leaves every observable attribute of the Area or
\* Zone as it was.
C4_FailedFetchChangesNothing ==
    [][ (ev'.op = "ws_done" /\ ~ev'.ok)
        => \A i \in 1..Len(ws) :
             HandlerEnds(i)
             => Observable(ws[i].entity, areaHeap', zoneHeap')
                   = Observable(ws[i].entity, areaHeap, zoneHeap) ]_vars

\* a fetch has just failed for a Gateway one of whose zones was refreshed before
C4_Witness ==
    /\ ev.op = "ws_done" /\ ~ev.ok
    /\ \E o \in 1..Len(zoneHeap) : zoneHeap[o]._input = "OPEN"

\* C5: async_load_parameters returns False, constructs nothing and leaves both
\* maps as they were when the zone-list or the area-list fetch yields nothing or
\* the controller reports two or more areas; in every other case it returns True.
C5_LoadFailsExactlyWhen ==
    [][ ev'.op = "load"
        => LET fails == ~ev'.zones \/ ev'.areas = "nothing" \/ ev'.areas = "several"
           IN  /\ ev'.ret = ~fails
               /\ fails => /\ _areas' = _areas
                           /\ _zones' = _zones
                           /\ areaHeap' = areaHeap
                           /\ zoneHeap' = zoneHeap ]_vars

\* a load has just failed on a Gateway that had loaded its entities before
C5_Witness ==
    /\ ev.op = "load"
    /\ ~ev.ret
    /\ ev.areas = "several"
    /\ DOMAIN _areas # {}
    /\ DOMAIN _zones # {}

RECURSIVE SumOfZones(_)
SumOfZones(oids) ==
    IF oids = {} THEN 0
    ELSE LET a == CHOOSE o \in oids : TRUE
         IN  Len(areaHeap[a].zones) + SumOfZones(oids \ {a})

\* C6: after a load that succeeded, every Zone of the zone map is owned by an Area
\* of the area map, and the zone collections of the areas of the area map hold
\* exactly the Zones of the zone map, each once.
C6_RegistryBijection ==
    (ev.op = "load" /\ ev.ret)
    => LET areaOids == { _areas[i] : i \in DOMAIN _areas }
           zoneOids == { _zones[i] : i \in DOMAIN _zones }
           owned == UNION { { areaHeap[a].zones[k] : k \in 1..Len(areaHeap[a].zones) } :
                            a \in areaOids }
       IN  /\ \A z \in zoneOids : zoneHeap[z]._area \in areaOids
           /\ owned = zoneOids
           /\ SumOfZones(areaOids) = Cardinality(zoneOids)

\* C9: the area map holds at most one Area in every reachable state.
C9_AtMostOneArea == Cardinality(DOMAIN _areas) <= 1

\* C7: change_mode with a valid mode and a resolvable Area sends one PUT of the
\* mode's command for the Area's id; when the PUT has come back, failed or not, it
\* sends one refresh fetch of the same Area; when that has come back the Area's
\* mode is the one the fetch reported, or unchanged when the fetch failed.
C7_CommandThenRefresh ==
    [][ /\ \A area \in AreaArgs, new_mode \in AreaModeMembers :
             (ev'.op = "cm_call" /\ ResolveArea(area) # 0 /\ CmCall(area, new_mode))
             => /\ Len(cm') = Len(cm) + 1
                /\ cm'[Len(cm')].area = ResolveArea(area)
                /\ cm'[Len(cm')].requests = << [action |-> "put"] >>
                /\ cm'[Len(cm')].url =
                      <<"spc/area", areaHeap[ResolveArea(area)]._id,
                        CASE new_mode = "UNSET" -> "unset"
                          [] new_mode = "PART_SET_A" -> "set_a"
                          [] new_mode = "PART_SET_B" -> "set_b"
                          [] new_mode = "FULL_SET" -> "set">>
                /\ areaHeap' = areaHeap
        /\ ev'.op = "cm_put"
           => \A i \in 1..Len(cm) :
                (cm[i].pc = "put" /\ cm'[i] # cm[i])
                => /\ Len(cm') = Len(cm)
                   /\ cm'[i].area = cm[i].area
                   /\ cm'[i].requests = << [action |-> "put"], [action |-> "get"] >>
                   /\ cm'[i].url = <<"spc/area", areaHeap[cm[i].area]._id>>
                   /\ areaHeap' = areaHeap
        /\ ev'.op = "cm_done"
           => \A i \in 1..Len(cm) :
                cm' = RemoveAt(cm, i)
                => /\ cm[i].requests = << [action |-> "put"], [action |-> "get"] >>
                   /\ \A x \in RefreshExchanges(AreaRef(cm[i].area)) :
                        CmFinish(i, x)
                        => IF x \in Failures
                           THEN areaHeap' = areaHeap
                           ELSE areaHeap'[cm[i].area]._mode =
                                   _load_enum(AreaMode, x.json.data.area[1].mode, None) ]_vars

\* a command has just failed and change_mode awaits the refresh fetch all the same
C7_Witness ==
    /\ ev = [op |-> "cm_put", ok |-> FALSE]
    /\ \E i \in 1..Len(cm) : cm[i].pc = "get" /\ cm[i].data = False

\* C8: change_mode with a new_mode that is no AreaMode raises TypeError at once:
\* no command is sent, no fetch is made and no entity changes.
C8_InvalidModeRaises ==
    [][ \A area \in AreaArgs, new_mode \in ModeArgs \ AreaModeMembers :
          (ev'.op = "cm_call" /\ CmCall(area, new_mode))
          => /\ ev'.to = "TypeError"
             /\ cm' = cm
             /\ areaHeap' = areaHeap
             /\ zoneHeap' = zoneHeap ]_vars

\* change_mode has just raised TypeError on a Gateway that has loaded its Area
C8_Witness ==
    /\ ev = [op |-> "cm_call", to |-> "TypeError"]
    /\ DOMAIN _areas # {}

\* what a refresh never touches: the maps, and each object's identifier, name,
\* zone collection and owning Area
Frame ==
    <<_areas, _zones,
      [o \in 1..Len(areaHeap) |->
          <<areaHeap[o]._id, areaHeap[o]._name, areaHeap[o].zones>>],
      [o \in 1..Len(zoneHeap) |->
          <<zoneHeap[o]._id, zoneHeap[o]._name, zoneHeap[o]._area>>]>>

\* C10: once the load has succeeded, no step of a push handler or of change_mode
\* adds, removes or replaces an entry of a map, nor changes a zone collection, an
\* identifier or a name.
C10_MapsStableAfterLoad ==
    [][ ( /\ DOMAIN _areas # {}
          /\ ev'.op \in {"ws_call", "ws_done", "observer", "cm_call", "cm_put", "cm_done"} )
        => Frame' = Frame ]_vars

\* a push handler has just refreshed a Zone and change_mode awaits a request
C10_Witness ==
    /\ ev.op = "ws_done" /\ ev.ok
    /\ \E o \in 1..Len(zoneHeap) : zoneHeap[o]._input = "OPEN"
    /\ cm # <<>>

\* C11: for every Area and each of its modes (the four members and None, the
\* value of an unrecognized mode), last_changed_by is last_set_user_name when
\* the mode is UNSET and last_unset_user_name otherwise, after construction and
\* after every refresh.
C11_LastChangedByFollowsMode ==
    \A o \in 1..Len(areaHeap) :
       LET a == areaHeap[o]
       IN  /\ a._mode \in AreaModeMembers \cup {None}
           /\ a._mode = "UNSET"
              => Area_last_changed_by(a) = a._last_set_user_name
           /\ a._mode \in {"PART_SET_A", "PART_SET_B", "FULL_SET", None}
              => Area_last_changed_by(a) = a._last_unset_user_name

\* an Area has just been refreshed to an unrecognized mode with both actor names
C11_Witness ==
    /\ ev.op = "area_update_state"
    /\ areaHeap[ev.o]._mode = None
    /\ areaHeap[ev.o]._last_set_user_name = "alice"
    /\ areaHeap[ev.o]._last_unset_user_name = "bob"
    /\ Area_last_changed_by(areaHeap[ev.o]) = "bob"

\* C12: the area-class codes are CG, OG, BV, CL, NL, OP, ZG, the zone-class codes
\* are ZO, ZC, ZX, ZD, ZM, BA, BB, BU, BR, BC, no code is in both, the handler
\* resolves an area-class code to an Area only and a zone-class code to a Zone
\* only, and every other code is ignored: no fetch, no entity change, no observer
\* invocation.
C12_ClassificationPartition ==
    [][ LET areaCodes == {"CG", "OG", "BV", "CL", "NL", "OP", "ZG"}
            zoneCodes == {"ZO", "ZC", "ZX", "ZD", "ZM", "BA", "BB", "BU", "BR", "BC"}
            otherCodes == {"ZZ", "XX", None}
        IN  /\ Area_SUPPORTED_SIA_CODES = areaCodes
            /\ Zone_SUPPORTED_SIA_CODES = zoneCodes
            /\ areaCodes \cap zoneCodes = {}
            /\ \A spc_id \in Addresses :
                  /\ \A c \in areaCodes :
                        LET r == Resolve(c, spc_id)
                        IN  /\ r.to \in {"refresh", "raise"}
                            /\ r.to = "refresh" => r.entity.cls = "Area"
                  /\ \A c \in zoneCodes :
                        LET r == Resolve(c, spc_id)
                        IN  /\ r.to \in {"refresh", "unregistered"}
                            /\ r.to = "refresh" => r.entity.cls = "Zone"
                  /\ \A c \in otherCodes : Resolve(c, spc_id).to = "ignored"
            /\ (ev'.op = "ws_call" /\ ev'.sia_code \notin areaCodes \cup zoneCodes)
               => /\ ev'.to = "ignored"
                  /\ ws' = ws
                  /\ futures' = futures
                  /\ areaHeap' = areaHeap
                  /\ zoneHeap' = zoneHeap ]_vars

\* a message with code ZZ and the address of a loaded Zone has just been ignored
C12_Witness ==
    /\ ev.op = "ws_call"
    /\ ev.to = "ignored"
    /\ ev.sia_code = "ZZ"
    /\ ev.spc_id \in DOMAIN _zones
    /\ Cardinality(DOMAIN _areas) = 1

\* C13: after a load that succeeded, unique_id of every Zone of the zone map is
\* the controller's serial number, "-" and the zone's id, and reading it raises
\* nothing.
C13_UniqueIdIsSerialAndId ==
    (ev.op = "load" /\ ev.ret)
    => \A i \in DOMAIN _zones :
         Zone_unique_id(zoneHeap[_zones[i]]) = Return(<<PanelBody.data.panel.sn, "-", i>>)

\* C14: a push of the area class raises only when more than one Area is
\* registered: never with an empty registry, and with exactly one Area it
\* resolves to that Area whatever the address.
C14_RaisesOnlyAboveOneArea ==
    [][ ev'.op = "ws_call"
        => /\ ev'.to = "raise" => Cardinality(DOMAIN _areas) > 1
           /\ (Cardinality(DOMAIN _areas) = 1 /\ ev'.sia_code \in Area_SUPPORTED_SIA_CODES)
              => /\ ev'.to = "refresh"
                 /\ ws' = Append(ws, ws'[Len(ws')])
                 /\ ws'[Len(ws')].entity = AreaRef(SoleArea) ]_vars

\* the refreshable fields of an Area and of a Zone
AreaRefreshable(a) ==
    <<a._mode, a._last_set_user_name, a._last_unset_user_name, a._verified_alarm>>
ZoneRefreshable(z) == <<z._input, z._type, z._status>>
\* the refreshable fields that one single record yields
AreaUnits ==
    { <<_load_enum(AreaMode, f.mode, None), Get(f, "last_set_user_name", "N/A"),
        Get(f, "last_unset_user_name", "N/A"), v>> :
        f \in AreaFields \cup AreaRecs, v \in BOOLEAN }
ZoneUnits ==
    { <<_load_enum(ZoneInput, f.input, None), _load_enum(ZoneType, f.type, None),
        _load_enum(ZoneStatus, f.status, None)>> : f \in ZoneFields \cup ZoneRecs }

\* C15: wherever a task can run or read, with push handlers and change_mode
\* calls in flight on the same entity, the refreshable fields of every Area and
\* of every Zone all come from one single response (or from the load), never
\* from a mix of two.
C15_RefreshReplacesAsAUnit ==
    /\ \A o \in 1..Len(areaHeap) : AreaRefreshable(areaHeap[o]) \in AreaUnits
    /\ \A o \in 1..Len(zoneHeap) : ZoneRefreshable(zoneHeap[o]) \in ZoneUnits
\* a handler's refresh of an Area has been applied while a change_mode call on
\* the same Area, the only entity there is, awaits its own refresh
C15_Witness ==
    /\ ev.op = "ws_done" /\ ev.ok
    /\ Len(areaHeap) = 1 /\ zoneHeap = <<>>
    /\ AreaRefreshable(areaHeap[1]) = <<None, "N/A", "N/A", FALSE>>
    /\ \E j \in 1..Len(cm) : cm[j].pc = "get" /\ cm[j].area = 1

AppliedTo(o) ==
    { x \in RefreshExchanges(AreaRef(o)) :
        /\ Truthy(_async_request(x))
        /\ \/ /\ ev'.op = "ws_done"
              /\ ws[ev'.i].entity = AreaRef(o)
              /\ HandlerReturn(ev'.i, x)
           \/ /\ ev'.op = "cm_done"
              /\ \E i \in 1..Len(cm) :
                    cm[i].pc = "get" /\ cm[i].area = o /\ CmFinish(i, x) }

\* C17: the mode of an Area changes only in a step that applies a successful
\* refresh fetch to it, and after such a step it is the mode the response
\* reports, None when the reported value is unknown, whatever the event code or
\* the change_mode argument was and whatever the mode was before, None included.
C17_ModeOnlyFromRefresh ==
    [][ \A o \in 1..Len(areaHeap) :
          IF ev'.op \in {"ws_done", "cm_done"} /\ ev'.ok
          THEN LET applied == AppliedTo(o)
               IN  /\ areaHeap'[o]._mode # areaHeap[o]._mode => applied # {}
                   /\ \A x \in applied :
                         areaHeap'[o]._mode =
                             _load_enum(AreaMode, x.json.data.area[1].mode, None)
          ELSE areaHeap'[o]._mode = areaHeap[o]._mode ]_vars
\* the refresh of a change_mode call has set an Area, loaded as UNSET, to FULL_SET
C17_Witness ==
    /\ ev.op = "cm_done" /\ ev.ok
    /\ \E o \in 1..Len(areaHeap) : areaHeap[o]._mode = "FULL_SET"

\* the member a raw value stands for, None for a value the enum does not know
Parsed(enum, value) == IF value \in DOMAIN enum THEN enum[value] ELSE None
\* the fields a zone record and an area record stand for, each taken alone
ZoneParsed(z) ==
    <<Parsed(ZoneInput, z.input), Parsed(ZoneType, z.type), Parsed(ZoneStatus, z.status)>>
AreaParsed(a) ==
    <<Parsed(AreaMode, a.mode),
      IF "last_set_user_name" \in DOMAIN a THEN a.last_set_user_name ELSE "N/A",
      IF "last_unset_user_name" \in DOMAIN a THEN a.last_unset_user_name ELSE "N/A">>
AreaParsable(a) == <<a._mode, a._last_set_user_name, a._last_unset_user_name>>

\* C18: a Zone or an Area constructed or refreshed from a record has, for each
\* enumerated field, the member its own raw value stands for, or None when that
\* value is unknown, whatever the other values of the record are; an Area gets
\* "N/A" for an actor name the record does not carry.
C18_EachFieldDefaultedAlone ==
    /\ \A z \in AnyZoneFields :
          ZoneRefreshable(Zone_init(1, z @@ [id |-> 1, zone_name |-> ZoneNameOf(1),
                                            area |-> 1])) = ZoneParsed(z)
    /\ \A a \in AnyAreaFields :
          AreaParsable(Area_init(a @@ [id |-> 1, name |-> AreaNameOf(1)])) = AreaParsed(a)
    /\ (ev.op = "zone_update_state" /\ Truthy(_async_request(ev.x)))
       => LET zone == ev.x.json.data.zone
          IN  ZoneRefreshable(zoneHeap[ev.o])
                 = ZoneParsed(IF zone.isList THEN zone.items[1] ELSE zone.item)
    /\ (ev.op = "area_update_state" /\ Truthy(_async_request(ev.x)))
       => AreaParsable(areaHeap[ev.o]) = AreaParsed(ev.x.json.data.area[1])
\* a Zone refreshed from a record whose input alone is unknown, next to an Area
\* whose record had an unknown mode and no actor names
C18_Witness ==
    /\ ev.op = "zone_update_state"
    /\ ZoneRefreshable(zoneHeap[ev.o]) = <<None, "ENTRY_EXIT", "OK">>
    /\ AreaParsable(areaHeap[1]) = <<None, "N/A", "N/A">>

\* C19: once the controller's area has changed state, with one push message
\* per change, and every handler has completed with the response the controller
\* gave when it served the handler's fetch, the Area has the state the controller
\* is in, in whatever order the responses arrived.
C19_ConvergesToFinalState ==
    (controller.changes >= 1 /\ ws = <<>>)
    => \A id \in DOMAIN _areas :
          AreaParsable(areaHeap[_areas[id]]) = AreaParsed(controller.fields)

\* C20: change_mode with an area identifier that is no key of the area map ends
\* in an error at its call: no command is sent, no fetch is made and no Area or
\* Zone changes.
C20_UnknownAreaSendsNothing ==
    [][ \A area \in { a \in AreaArgs : ~a.isArea /\ a.id \notin DOMAIN _areas },
           new_mode \in ModeArgs :
          (ev'.op = "cm_call" /\ CmCall(area, new_mode))
          => /\ ev'.to \in {"TypeError", "AttributeError"}
             /\ IsAreaMode(new_mode) => ev'.to = "AttributeError"
             /\ cm' = cm
             /\ areaHeap' = areaHeap
             /\ zoneHeap' = zoneHeap ]_vars
\* change_mode with a valid mode has just failed on the lookup of its area, on a
\* Gateway that has loaded another Area
C20_Witness ==
    /\ ev.op = "cm_call" /\ ev.to = "AttributeError"
    /\ Cardinality(DOMAIN _areas) = 1
====
